---- MODULE Spec2Model ----
(***************************************************************************)
(* Model of services/geminiService.ts: the retry wrapper withRetry and the *)
(* JSON ingestion function cleanAndParseJSON.                              *)
(*                                                                         *)
(* Texts (error messages, response texts) are sequences of one-character   *)
(* strings, so that indexOf, includes, toLowerCase, replace and JSON.parse *)
(* are computed character by character as the JavaScript does.             *)
(***************************************************************************)
EXTENDS Integers, Sequences, FiniteSets, TLC

(***************************************************************************)
(* Generic string helpers (JavaScript String methods).                     *)
(***************************************************************************)

\* String.prototype.toLowerCase, letter by letter.
UpperToLower ==
    ("A" :> "a") @@ ("B" :> "b") @@ ("C" :> "c") @@ ("D" :> "d") @@
    ("E" :> "e") @@ ("F" :> "f") @@ ("G" :> "g") @@ ("H" :> "h") @@
    ("I" :> "i") @@ ("J" :> "j") @@ ("K" :> "k") @@ ("L" :> "l") @@
    ("M" :> "m") @@ ("N" :> "n") @@ ("O" :> "o") @@ ("P" :> "p") @@
    ("Q" :> "q") @@ ("R" :> "r") @@ ("S" :> "s") @@ ("T" :> "t") @@
    ("U" :> "u") @@ ("V" :> "v") @@ ("W" :> "w") @@ ("X" :> "x") @@
    ("Y" :> "y") @@ ("Z" :> "z")

toLowerCase(s) ==
    [i \in 1..Len(s) |-> IF s[i] \in DOMAIN UpperToLower THEN UpperToLower[s[i]] ELSE s[i]]

\* TRUE iff sub occurs in s starting at (1-based) position i.
StartsAt(s, i, sub) ==
    /\ i >= 1
    /\ i + Len(sub) - 1 <= Len(s)
    /\ \A k \in 1..Len(sub) : s[i + k - 1] = sub[k]

\* String.prototype.includes.
includes(s, sub) == \E i \in 1..(Len(s) + 1) : StartsAt(s, i, sub)

(***************************************************************************)
(* withRetry (geminiService.ts lines 58-76).                               *)
(***************************************************************************)

\* Default parameters of withRetry: retries = 3, delay = 2000.
DefaultRetries == 3
DefaultDelay == 2000

\* The substrings the catch block looks for in the lower-cased message.
Ind429 == <<"4","2","9">>
IndExhausted == <<"r","e","s","o","u","r","c","e","_","e","x","h","a","u","s","t","e","d">>
Ind500 == <<"5","0","0">>
IndInternal == <<"i","n","t","e","r","n","a","l"," ","e","r","r","o","r">>

\* Messages the endpoint client's errors carry in the model.
Msg429Quota == <<"E","r","r","o","r"," ","4","2","9",":"," ","q","u","o","t","a">>
MsgExhausted == <<"R","E","S","O","U","R","C","E","_","E","X","H","A","U","S","T","E","D">>
Msg500 == <<"5","0","0"," ","I","n","t","e","r","n","a","l">>
MsgInternal == <<"I","n","t","e","r","n","a","l"," ","E","r","r","o","r">>
Msg401 == <<"4","0","1"," ","U","n","a","u","t","h","o","r","i","z","e","d">>
MsgBoth == <<"4","2","9"," ","t","h","e","n"," ","5","0","0">>

\* What an operation invocation can throw: an error with a message, or an
\* error object without one (error.message undefined).
ErrorKinds ==
    { [hasMsg |-> TRUE, msg |-> m] :
        m \in {Msg429Quota, MsgExhausted, Msg500, MsgInternal, Msg401, MsgBoth} }
    \cup { [hasMsg |-> FALSE, msg |-> <<>>] }

\* What an operation invocation can resolve with.
Values == {"v1", "v2"}

\* Number of withRetry invocations a behaviour makes one after the other.
MaxRounds == 2

NoError == [id |-> 0, hasMsg |-> FALSE, msg |-> <<>>]
NoValue == "none"

VARIABLES
    pc,        \* "idle" | "attempting" (fn in flight) | "waiting" (timer pending)
               \* | "resolved" | "rejected"
    retries,   \* parameter `retries` of the current withRetry frame
    delay,     \* parameter `delay` of the current withRetry frame
    calls,     \* number of fn() invocations of this withRetry call so far
    waits,     \* the waitTime of every setTimeout scheduled, in order
    thrown,    \* the errors fn() has thrown, in order
    outcome,   \* what the caller of withRetry observes
    round      \* number of withRetry calls started so far

rvars == <<pc, retries, delay, calls, waits, thrown, outcome, round>>

VARIABLES
    text,      \* the argument of the cleanAndParseJSON call
    presult    \* what the cleanAndParseJSON call did: pending, returned or threw

pvars == <<text, presult>>

\* State of one call-site invocation: the exported function running, its
\* useMockMode argument, its position, the response text it read, what its
\* promise settled with, and the nodeId argument of expandMindMapNode.
VARIABLES
    site,
    mock,
    cpc,
    response,
    cresult,
    nodeId

cvars == <<site, mock, cpc, response, cresult, nodeId>>

\* State of a second withRetry invocation running at the same time as the
\* first: its own frame (retries, delay) and its own history.
VARIABLE other

vars == <<rvars, pvars, cvars, other>>

\* Variant that compares the message as it stands, without lower-casing.
errorMsg_CaseSensitive(error) == IF error.hasMsg THEN error.msg ELSE <<>>

\* line 62: error.message?.toLowerCase() || ""
errorMsg(error) == IF error.hasMsg THEN toLowerCase(error.msg) ELSE <<>>

\* lines 63-66
isRetryable(error) ==
    \/ includes(errorMsg(error), Ind429)
    \/ includes(errorMsg(error), IndExhausted)
    \/ includes(errorMsg(error), Ind500)
    \/ includes(errorMsg(error), IndInternal)

\* Variants of the retry guard: one that still retries with zero retries
\* remaining, and one that ignores the classification.
shouldRetry_OffByOne(r, error) == r >= 0 /\ isRetryable(error)
shouldRetry_AnyError(r, error) == r > 0

\* line 68: the guard of the retry branch
shouldRetry(r, error) == r > 0 /\ isRetryable(error)

\* Variant of the wait computation without the halving branch.
waitTime_AlwaysFull(error, d) == d

\* line 69: errorMsg.includes('429') ? delay : delay / 2
\* (every delay of the model is even, so the JavaScript division is exact)
waitTime(error, d) == IF includes(errorMsg(error), Ind429) THEN d ELSE d \div 2

\* Variant of the recursive call that passes the delay on unchanged.
nextDelay_NoGrowth(d) == d

\* Variant that passes the budget on unchanged.
nextRetries_NoDecrement(r) == r

\* Variants of the delay passed on: linear growth, and tripling.
nextDelay_AddsBase(d) == d + 2000
nextDelay_Triples(d) == d * 3

\* line 72: the arguments of the recursive call
nextRetries(r) == r - 1
nextDelay(d) == d * 2

\* Variant of the rethrow that throws a new error with the same message.
rethrow_Wrapped(error) == [id |-> 0, hasMsg |-> error.hasMsg, msg |-> error.msg]

\* line 74: throw error (the caught value itself)
rethrow(error) == error

RInit ==
    /\ pc = "idle"
    /\ retries = DefaultRetries
    /\ delay = DefaultDelay
    /\ calls = 0
    /\ waits = <<>>
    /\ thrown = <<>>
    /\ outcome = [kind |-> "none", val |-> NoValue, err |-> NoError]
    /\ round = 0

\* A call site calls withRetry(fn) with the default parameters; the body runs
\* synchronously up to `await fn()`, so fn is invoked once.
Invoke ==
    /\ pc \in {"idle", "resolved", "rejected"}
    /\ round < MaxRounds
    /\ round' = round + 1
    /\ pc' = "attempting"
    /\ retries' = DefaultRetries
    /\ delay' = DefaultDelay
    /\ calls' = 1
    /\ waits' = <<>>
    /\ thrown' = <<>>
    /\ outcome' = [kind |-> "none", val |-> NoValue, err |-> NoError]
    /\ UNCHANGED <<pvars, cvars, other>>

\* line 60: fn() resolves and withRetry returns its value.
FnResolve ==
    /\ pc = "attempting"
    /\ \E v \in Values :
        outcome' = [kind |-> "value", val |-> v, err |-> NoError]
    /\ pc' = "resolved"
    /\ UNCHANGED <<retries, delay, calls, waits, thrown, round, pvars, cvars, other>>

\* Variant of the catch block that sets the timer before it tests whether
\* to retry, so that a wait is scheduled even when the error is rethrown.
FnReject_WaitsBeforeRethrow ==
    /\ pc = "attempting"
    /\ \E k \in ErrorKinds :
        LET error == [id |-> calls, hasMsg |-> k.hasMsg, msg |-> k.msg] IN
        /\ thrown' = Append(thrown, error)
        /\ waits' = Append(waits, waitTime(error, delay))
        /\ IF shouldRetry(retries, error)
           THEN /\ pc' = "waiting"
                /\ UNCHANGED outcome
           ELSE /\ outcome' = [kind |-> "error", val |-> NoValue, err |-> rethrow(error)]
                /\ pc' = "rejected"
    /\ UNCHANGED <<retries, delay, calls, round, pvars, cvars, other>>

\* Variant of the catch block that does not await the timer promise of line
\* 71: the recursive call invokes fn while the wait is still pending.
FnReject_NoAwait ==
    /\ pc = "attempting"
    /\ \E k \in ErrorKinds :
        LET error == [id |-> calls, hasMsg |-> k.hasMsg, msg |-> k.msg] IN
        /\ thrown' = Append(thrown, error)
        /\ IF shouldRetry(retries, error)
           THEN /\ waits' = Append(waits, waitTime(error, delay))
                /\ retries' = nextRetries(retries)
                /\ delay' = nextDelay(delay)
                /\ calls' = calls + 1
                /\ UNCHANGED <<pc, outcome>>
           ELSE /\ outcome' = [kind |-> "error", val |-> NoValue, err |-> rethrow(error)]
                /\ pc' = "rejected"
                /\ UNCHANGED <<waits, retries, delay, calls>>
    /\ UNCHANGED <<round, pvars, cvars, other>>

\* lines 61-74: fn() rejects; the catch block classifies the error and either
\* schedules the timer (line 71) or rethrows (line 74).
FnReject ==
    /\ pc = "attempting"
    /\ \E k \in ErrorKinds :
        LET error == [id |-> calls, hasMsg |-> k.hasMsg, msg |-> k.msg] IN
        /\ thrown' = Append(thrown, error)
        /\ IF shouldRetry(retries, error)
           THEN /\ waits' = Append(waits, waitTime(error, delay))
                /\ pc' = "waiting"
                /\ UNCHANGED outcome
           ELSE /\ outcome' = [kind |-> "error", val |-> NoValue, err |-> rethrow(error)]
                /\ pc' = "rejected"
                /\ UNCHANGED waits
    /\ UNCHANGED <<retries, delay, calls, round, pvars, cvars, other>>

\* lines 71-72: the timer fires and withRetry(fn, retries - 1, delay * 2) runs
\* up to its `await fn()`.
TimerFire ==
    /\ pc = "waiting"
    /\ retries' = nextRetries(retries)
    /\ delay' = nextDelay(delay)
    /\ calls' = calls + 1
    /\ pc' = "attempting"
    /\ UNCHANGED <<waits, thrown, outcome, round, pvars, cvars, other>>



(***************************************************************************)
(* cleanAndParseJSON (geminiService.ts lines 9-53).                        *)
(***************************************************************************)

\* Characters matched by \s, and removed by trim().
WS == {" ", "\n", "\t", "\r"}

Digits == {"0","1","2","3","4","5","6","7","8","9"}

DigitVal ==
    ("0" :> 0) @@ ("1" :> 1) @@ ("2" :> 2) @@ ("3" :> 3) @@ ("4" :> 4) @@
    ("5" :> 5) @@ ("6" :> 6) @@ ("7" :> 7) @@ ("8" :> 8) @@ ("9" :> 9)

\* The backtick character (the one character a string literal cannot hold).
Tick == "BACKTICK"

Fence == <<Tick,Tick,Tick>>
FenceJson == <<Tick,Tick,Tick,"j","s","o","n">>

Min(S) == CHOOSE x \in S : \A y \in S : x <= y

\* First position >= i of s whose character is not in the set cs
\* (Len(s) + 1 if there is none).
SkipChars(s, i, cs) ==
    IF i > Len(s) THEN i
    ELSE Min({ j \in i..(Len(s) + 1) : j = Len(s) + 1 \/ s[j] \notin cs })

\* First position >= i of s that is not whitespace: the end of a \s* match.
SkipWs(s, i) == SkipChars(s, i, WS)

\* line 12: text.replace(/```json\s*|\s*```/g, ""), scanning from position i.
\* At each position the first alternative is tried before the second.
\* The text up to the leftmost match is kept, the match is dropped and the
\* scan resumes after it.
RECURSIVE replaceFences(_, _)
replaceFences(s, i) ==
    LET matches == { j \in i..Len(s) :
                        StartsAt(s, j, FenceJson) \/ StartsAt(s, SkipWs(s, j), Fence) }
    IN  IF matches = {} THEN SubSeq(s, i, Len(s))
        ELSE LET j == Min(matches)
                 after == IF StartsAt(s, j, FenceJson)
                          THEN SkipWs(s, j + 7)
                          ELSE SkipWs(s, j) + 3
             IN  SubSeq(s, i, j - 1) \o replaceFences(s, after)

\* String.prototype.trim
trim(s) ==
    LET kept == { j \in 1..Len(s) : s[j] \notin WS }
    IN  IF kept = {} THEN <<>>
        ELSE SubSeq(s, Min(kept), CHOOSE x \in kept : \A y \in kept : y <= x)

\* String.prototype.indexOf / lastIndexOf of one character: 0-based, -1 if absent.
indexOf(s, c) ==
    IF \E i \in 1..Len(s) : s[i] = c
    THEN (CHOOSE i \in 1..Len(s) : s[i] = c /\ \A j \in 1..(i - 1) : s[j] # c) - 1
    ELSE -1

lastIndexOf(s, c) ==
    IF \E i \in 1..Len(s) : s[i] = c
    THEN (CHOOSE i \in 1..Len(s) : s[i] = c /\ \A j \in (i + 1)..Len(s) : s[j] # c) - 1
    ELSE -1

\* lines 14-24
envelopeStart(clean) ==
    LET firstBrace == indexOf(clean, "{")
        firstBracket == indexOf(clean, "[")
    IN  IF firstBrace # -1 /\ (firstBracket = -1 \/ firstBrace < firstBracket)
        THEN firstBrace
        ELSE IF firstBracket # -1 THEN firstBracket ELSE -1

\* lines 16-31
envelopeEnd(clean) ==
    LET lastBrace == lastIndexOf(clean, "}")
        lastBracket == lastIndexOf(clean, "]")
    IN  IF lastBrace # -1 /\ (lastBracket = -1 \/ lastBrace > lastBracket)
        THEN lastBrace
        ELSE IF lastBracket # -1 THEN lastBracket ELSE -1

\* Variant that slices only when the opener and the closer are of one kind.
sliceEnvelope_RequiresMatch(clean) ==
    LET start == envelopeStart(clean)
        end == envelopeEnd(clean)
    IN  IF start # -1 /\ end # -1 /\ end > start
           /\ (clean[start + 1] = "{" <=> clean[end + 1] = "}")
        THEN SubSeq(clean, start + 1, end + 1)
        ELSE clean

\* Variant that cuts the slice one character short: substring(start, end).
sliceEnvelope_DropsCloser(clean) ==
    LET start == envelopeStart(clean)
        end == envelopeEnd(clean)
    IN  IF start # -1 /\ end # -1 /\ end > start
        THEN SubSeq(clean, start + 1, end)
        ELSE clean

\* lines 33-35: clean.substring(start, end + 1) when an envelope is found
sliceEnvelope(clean) ==
    LET start == envelopeStart(clean)
        end == envelopeEnd(clean)
    IN  IF start # -1 /\ end # -1 /\ end > start
        THEN SubSeq(clean, start + 1, end + 1)
        ELSE clean

\* Position after the digit run starting at i.
SkipDigits(s, i) == SkipChars(s, i, Digits)

\* If /"\d+":\s*{/ matches at position i, the position of its '{'; else 0.
indexKeyMatch(s, i) ==
    IF i > Len(s) \/ s[i] # "\"" THEN 0
    ELSE LET d == SkipDigits(s, i + 1) IN
         IF d = i + 1 \/ d + 1 > Len(s) \/ s[d] # "\"" \/ s[d + 1] # ":" THEN 0
         ELSE LET b == SkipWs(s, d + 2) IN
              IF b <= Len(s) /\ s[b] = "{" THEN b ELSE 0

\* line 37: clean.replace(/"\d+":\s*{/g, '{'), scanning from position i.
RECURSIVE stripIndexKeys(_, _)
stripIndexKeys(s, i) ==
    LET matches == { j \in i..Len(s) : indexKeyMatch(s, j) # 0 }
    IN  IF matches = {} THEN SubSeq(s, i, Len(s))
        ELSE LET j == Min(matches)
             IN  SubSeq(s, i, j - 1) \o <<"{">>
                    \o stripIndexKeys(s, indexKeyMatch(s, j) + 1)

\* line 44: clean.replace(/,\s*([}\]])/g, '$1'), scanning from position i.
RECURSIVE stripTrailingCommas(_, _)
stripTrailingCommas(s, i) ==
    LET matches == { j \in i..Len(s) :
                        /\ s[j] = ","
                        /\ SkipWs(s, j + 1) <= Len(s)
                        /\ s[SkipWs(s, j + 1)] \in {"}", "]"} }
    IN  IF matches = {} THEN SubSeq(s, i, Len(s))
        ELSE LET j == Min(matches)
                 closer == SkipWs(s, j + 1)
             IN  SubSeq(s, i, j - 1) \o <<s[closer]>>
                    \o stripTrailingCommas(s, closer + 1)


(***************************************************************************)
(* JSON.parse (lines 40 and 46): a recursive-descent parser of the JSON    *)
(* grammar over objects, arrays, strings with the simple escapes, integer  *)
(* numbers and the literals true, false, null.  Fractions, exponents and   *)
(* \u escapes do not occur in the texts of the model.                      *)
(*                                                                         *)
(* A parsed value is a tagged pair: <<"num", n>>, <<"str", chars>>,        *)
(* <<"lit", name>>, <<"arr", sequence of values>> or <<"obj", function     *)
(* from keys to values>> (a repeated key keeps its last value).            *)
(***************************************************************************)

ParseFail == [ok |-> FALSE, v |-> <<>>, p |-> 0]

Escapes ==
    ("\"" :> "\"") @@ ("\\" :> "\\") @@ ("/" :> "/") @@
    ("n" :> "\n") @@ ("t" :> "\t") @@ ("r" :> "\r")

\* The characters of a string from position i (after the opening quote) up
\* to the closing quote.
RECURSIVE ParseStringBody(_, _, _)
ParseStringBody(s, i, acc) ==
    IF i > Len(s) THEN ParseFail
    ELSE IF s[i] = "\"" THEN [ok |-> TRUE, v |-> acc, p |-> i + 1]
    ELSE IF s[i] = "\\"
         THEN IF i + 1 <= Len(s) /\ s[i + 1] \in DOMAIN Escapes
              THEN ParseStringBody(s, i + 2, Append(acc, Escapes[s[i + 1]]))
              ELSE ParseFail
    ELSE IF s[i] \in {"\n", "\t", "\r"} THEN ParseFail
    ELSE ParseStringBody(s, i + 1, Append(acc, s[i]))

\* The value of the digit run s[i..j-1].
RECURSIVE DigitsValue(_, _, _, _)
DigitsValue(s, i, j, acc) ==
    IF i >= j THEN acc ELSE DigitsValue(s, i + 1, j, acc * 10 + DigitVal[s[i]])

\* -? (0 | [1-9][0-9]*) at position i.
ParseNumber(s, i) ==
    LET neg == s[i] = "-"
        j == IF neg THEN i + 1 ELSE i
    IN  IF j > Len(s) \/ s[j] \notin Digits THEN ParseFail
        ELSE LET k == IF s[j] = "0" THEN j + 1 ELSE SkipDigits(s, j)
                 n == DigitsValue(s, j, k, 0)
             IN  [ok |-> TRUE, v |-> <<"num", IF neg THEN 0 - n ELSE n>>, p |-> k]

LitTrue == <<"t","r","u","e">>
LitFalse == <<"f","a","l","s","e">>
LitNull == <<"n","u","l","l">>

RECURSIVE ParseValue(_, _), ParseMembers(_, _, _), ParseElements(_, _, _)

\* A value starting at the first non-blank position >= i; p is the position
\* after it.
ParseValue(s, i) ==
    LET j == SkipWs(s, i) IN
    IF j > Len(s) THEN ParseFail
    ELSE IF s[j] = "{"
         THEN LET k == SkipWs(s, j + 1) IN
              IF k <= Len(s) /\ s[k] = "}"
              THEN [ok |-> TRUE, v |-> <<"obj", <<>>>>, p |-> k + 1]
              ELSE ParseMembers(s, k, <<>>)
    ELSE IF s[j] = "["
         THEN LET k == SkipWs(s, j + 1) IN
              IF k <= Len(s) /\ s[k] = "]"
              THEN [ok |-> TRUE, v |-> <<"arr", <<>>>>, p |-> k + 1]
              ELSE ParseElements(s, k, <<>>)
    ELSE IF s[j] = "\""
         THEN LET r == ParseStringBody(s, j + 1, <<>>) IN
              IF r.ok THEN [ok |-> TRUE, v |-> <<"str", r.v>>, p |-> r.p] ELSE ParseFail
    ELSE IF s[j] \in Digits \cup {"-"} THEN ParseNumber(s, j)
    ELSE IF StartsAt(s, j, LitTrue) THEN [ok |-> TRUE, v |-> <<"lit", "true">>, p |-> j + 4]
    ELSE IF StartsAt(s, j, LitFalse) THEN [ok |-> TRUE, v |-> <<"lit", "false">>, p |-> j + 5]
    ELSE IF StartsAt(s, j, LitNull) THEN [ok |-> TRUE, v |-> <<"lit", "null">>, p |-> j + 4]
    ELSE ParseFail

\* The members of an object from position i, where a key must start.
ParseMembers(s, i, acc) ==
    IF i > Len(s) \/ s[i] # "\"" THEN ParseFail
    ELSE LET key == ParseStringBody(s, i + 1, <<>>) IN
         IF ~key.ok THEN ParseFail
         ELSE LET c == SkipWs(s, key.p) IN
              IF c > Len(s) \/ s[c] # ":" THEN ParseFail
              ELSE LET val == ParseValue(s, c + 1) IN
                   IF ~val.ok THEN ParseFail
                   ELSE LET acc2 == (key.v :> val.v) @@ acc
                            n == SkipWs(s, val.p)
                        IN  IF n > Len(s) THEN ParseFail
                            ELSE IF s[n] = "}"
                                 THEN [ok |-> TRUE, v |-> <<"obj", acc2>>, p |-> n + 1]
                            ELSE IF s[n] = ","
                                 THEN ParseMembers(s, SkipWs(s, n + 1), acc2)
                            ELSE ParseFail

\* The elements of an array from position i, where an element must start.
ParseElements(s, i, acc) ==
    LET val == ParseValue(s, i) IN
    IF ~val.ok THEN ParseFail
    ELSE LET acc2 == Append(acc, val.v)
             n == SkipWs(s, val.p)
         IN  IF n > Len(s) THEN ParseFail
             ELSE IF s[n] = "]"
                  THEN [ok |-> TRUE, v |-> <<"arr", acc2>>, p |-> n + 1]
             ELSE IF s[n] = ","
                  THEN ParseElements(s, n + 1, acc2)
             ELSE ParseFail

\* JSON.parse(s): ok = FALSE stands for the SyntaxError it throws.
JSONParse(s) ==
    LET r == ParseValue(s, 1) IN
    IF r.ok /\ SkipWs(s, r.p) > Len(s)
    THEN [ok |-> TRUE, v |-> r.v]
    ELSE [ok |-> FALSE, v |-> <<>>]

\* The messages of the two errors cleanAndParseJSON constructs.  The second
\* is the prefix of `AI generated malformed JSON: ${e.message}`; the parser's
\* own message is engine-specific and not modelled.
EmptyResponse == "Empty response text"
MalformedJSON == "AI generated malformed JSON"

\* Variant of the emptiness test that only detects a missing text.
isEmptyText_MissingOnly(t) == ~t.present

\* line 10: !text, for a text that is missing (undefined) or empty
isEmptyText(t) == ~t.present \/ t.chars = <<>>

\* lines 12-35: fence removal, trim and envelope slicing
normalize(chars) == sliceEnvelope(trim(replaceFences(chars, 1)))

\* lines 43-45
fixTrailingCommas(clean) == trim(stripTrailingCommas(clean, 1))

\* Variants of the final failure: one that returns an empty object instead
\* of throwing, and one that throws without logging the two texts.
malformedFailure_ReturnsDefault(raw, clean) ==
    [kind |-> "value", val |-> <<"obj", <<>>>>, msg |-> "",
     steps |-> <<"normalize", "indexKeys", "parse", "trailingCommas", "parse">>,
     logged |-> <<raw, clean>>, carried |-> <<>>]
malformedFailure_NoLog(raw, clean) ==
    [kind |-> "error", val |-> <<>>, msg |-> MalformedJSON,
     steps |-> <<"normalize", "indexKeys", "parse", "trailingCommas", "parse">>,
     logged |-> <<>>, carried |-> <<>>]

\* lines 47-51: both parses failed.  The raw text and the cleaned text go to
\* console.error; the Error thrown is built from a message alone.
malformedFailure(raw, clean) ==
    [kind |-> "error", val |-> <<>>, msg |-> MalformedJSON,
     steps |-> <<"normalize", "indexKeys", "parse", "trailingCommas", "parse">>,
     logged |-> <<raw, clean>>, carried |-> <<>>]

\* lines 9-53.  steps lists the stages executed; logged is what console.error
\* received (lines 48-49); carried is the texts attached to the thrown Error
\* besides its message.
cleanAndParseJSON(t) ==
    IF isEmptyText(t)
    THEN [kind |-> "error", val |-> <<>>, msg |-> EmptyResponse,
          steps |-> <<>>, logged |-> <<>>, carried |-> <<>>]
    ELSE LET clean == stripIndexKeys(normalize(t.chars), 1)
             first == JSONParse(clean)
         IN  IF first.ok
             THEN [kind |-> "value", val |-> first.v, msg |-> "",
                   steps |-> <<"normalize", "indexKeys", "parse">>,
                   logged |-> <<>>, carried |-> <<>>]
             ELSE LET second == JSONParse(fixTrailingCommas(clean)) IN
                  IF second.ok
                  THEN [kind |-> "value", val |-> second.v, msg |-> "",
                        steps |-> <<"normalize", "indexKeys", "parse", "trailingCommas", "parse">>,
                        logged |-> <<>>, carried |-> <<>>]
                  ELSE malformedFailure(t.chars, clean)

(***************************************************************************)
(* The response texts of the model: a body (a JSON text, or a malformed   *)
(* one), optionally surrounded by prose and by a markdown fence.          *)
(***************************************************************************)

BodyObj == <<"{", "\"", "a", "\"", ":", " ", "1", "}">>
BodyArr == <<"[", "1", ",", "2", ",", "3", "]">>
BodyNested == <<"{", "\"", "a", "\"", ":", "[", "1", ",", "{", "\"", "b", "\"", ":", "\"", "x", "\"", "}", "]", "}">>
BodyIndexKey == <<"{", "\"", "1", "\"", ":", "{", "\"", "a", "\"", ":", "1", "}", "}">>
BodyQuiz == <<"{", "\"", "q", "u", "i", "z", "\"", ":", "[", "{", "\"", "1", "\"", ":", "{", "\"", "q", "\"", ":", "\"", "x", "\"", "}", "}", ",", "{", "\"", "2", "\"", ":", "{", "\"", "q", "\"", ":", "\"", "y", "\"", "}", "}", "]", "}">>
BodyNumber == <<"4", "2">>
BodyString == <<"\"", "h", "i", "\"">>
BodyTrue == <<"t", "r", "u", "e">>
BodyNull == <<"n", "u", "l", "l">>
BodyFenceInString == <<"{", "\"", "a", "\"", ":", "\"", Tick, Tick, Tick, "\"", "}">>
BodyEmptyArr == <<"[", "]">>
BodyArrOfObj == <<"[", "{", "\"", "a", "\"", ":", "1", "}", ",", "{", "\"", "b", "\"", ":", "2", "}", "]">>
BodyBracketString == <<"\"", "a", "{", "b", "}", "\"">>
BodyCommaInString == <<"{", "\"", "a", "\"", ":", "\"", "x", ",", " ", "}", "\"", "}">>
BodyTrailingCommaArr == <<"[", "1", ",", "2", ",", "3", ",", "]">>
BodyTrailingCommaObj == <<"{", "\"", "a", "\"", ":", "1", ",", "}">>
BodyTrailingCommaString == <<"{", "\"", "a", "\"", ":", "\"", "x", ",", "}", "\"", ",", "}">>
BodyTickRun == <<"{", "\"", "a", "\"", ":", "\"", Tick, " ", Tick, Tick, Tick, Tick, Tick, "\"", "}">>
BodyCloserFirst == <<"a", "}", " ", "{", "b">>
BodyUnclosed == <<"{", "\"", "a", "\"", ":", " ", "1">>
BodyWords == <<"n", "o", " ", "d", "a", "t", "a">>
LeadNone == <<>>
LeadPlain == <<"H", "e", "r", "e", " ", "y", "o", "u", " ", "g", "o", ":", " ">>
LeadBracket == <<"S", "e", "e", " ", "[", "1", "]", ":", " ">>
TrailNone == <<>>
TrailPlain == <<" ", "H", "o", "p", "e", " ", "t", "h", "i", "s", " ", "h", "e", "l", "p", "s", "!">>
TrailBrace == <<" ", "(", "d", "o", "n", "e", "}">>

Bodies ==
    {BodyObj, BodyArr, BodyNested, BodyIndexKey, BodyQuiz, BodyNumber, BodyString, BodyTrue, BodyNull, BodyFenceInString, BodyEmptyArr, BodyArrOfObj, BodyBracketString, BodyCommaInString, BodyTrailingCommaArr, BodyTrailingCommaObj, BodyTrailingCommaString, BodyTickRun, BodyCloserFirst, BodyUnclosed, BodyWords}
Leads == {LeadNone, LeadPlain, LeadBracket}
Trails == {TrailNone, TrailPlain, TrailBrace}

\* The opening fence line: none, ```json or a bare ```.
FenceKinds == {"none", "json", "bare"}

\* Where the prose goes: inside the fence with the body, or outside it.
Layouts == {"inner", "outer"}

FenceOpen(f) == IF f = "json" THEN FenceJson ELSE Fence

Wrap(layout, f, lead, body, trail) ==
    IF f = "none" THEN lead \o body \o trail
    ELSE IF layout = "inner"
         THEN FenceOpen(f) \o <<"\n">> \o lead \o body \o trail \o <<"\n">> \o Fence
         ELSE lead \o FenceOpen(f) \o <<"\n">> \o body \o <<"\n">> \o Fence \o trail

Composed ==
    { [present |-> TRUE, chars |-> Wrap(l, f, a, b, z),
       layout |-> l, fence |-> f, lead |-> a, body |-> b, trail |-> z] :
        l \in Layouts, f \in FenceKinds, a \in Leads, b \in Bodies, z \in Trails }

\* A missing text (undefined), the empty string and a blank string.
MissingText ==
    [present |-> FALSE, chars |-> <<>>,
     layout |-> "outer", fence |-> "none", lead |-> <<>>, body |-> <<>>, trail |-> <<>>]
EmptyText == [MissingText EXCEPT !.present = TRUE]
BlankText == [EmptyText EXCEPT !.chars = <<" ", "\n">>, !.body = <<" ", "\n">>]

\* With no fence the layout makes no difference: keep one of the two.
Inputs ==
    { t \in Composed : t.fence = "none" => t.layout = "outer" }
    \cup {MissingText, EmptyText, BlankText}

Pending ==
    [kind |-> "pending", val |-> <<>>, msg |-> "", steps |-> <<>>,
     logged |-> <<>>, carried |-> <<>>]

\* No cleanAndParseJSON call.
PIdle == text = MissingText /\ presult = Pending

\* A caller is about to call cleanAndParseJSON(text).
PInit == text \in Inputs /\ presult = Pending

\* The call cleanAndParseJSON(text), which runs to its return or throw.
Ingest ==
    /\ presult = Pending
    /\ presult' = cleanAndParseJSON(text)
    /\ UNCHANGED <<text, rvars, cvars, other>>



(***************************************************************************)
(* A second invocation of withRetry, interleaved with the first.  Each     *)
(* invocation is a chain of calls of the same function whose retries and   *)
(* delay are parameters (line 58), so each has its own.                    *)
(***************************************************************************)

\* What the second invocation's operation can throw and resolve with.
OtherErrorKinds ==
    { [hasMsg |-> TRUE, msg |-> m] : m \in {Msg429Quota, Msg500, Msg401} }
OtherValues == {"w1"}

OIdle ==
    other = [pc |-> "idle", retries |-> DefaultRetries, delay |-> DefaultDelay,
             calls |-> 0, waits |-> <<>>, thrown |-> <<>>,
             outcome |-> [kind |-> "none", val |-> NoValue, err |-> NoError]]

\* Variant in which the retry budget and the delay live in variables shared
\* by all invocations instead of in the parameters of each.
frame_ModuleLevel(o) == [retries |-> retries, delay |-> delay]

\* line 58: the retries and delay a running invocation reads are the
\* parameters of its own frame.
frame(o) == [retries |-> o.retries, delay |-> o.delay]

OtherInvoke ==
    /\ other.pc = "idle"
    /\ other' = [other EXCEPT !.pc = "attempting", !.calls = 1]
    /\ UNCHANGED <<rvars, pvars, cvars>>

OtherFnResolve ==
    /\ other.pc = "attempting"
    /\ \E v \in OtherValues :
        other' = [other EXCEPT !.pc = "resolved",
                               !.outcome = [kind |-> "value", val |-> v, err |-> NoError]]
    /\ UNCHANGED <<rvars, pvars, cvars>>

OtherFnReject ==
    /\ other.pc = "attempting"
    /\ \E k \in OtherErrorKinds :
        LET error == [id |-> other.calls, hasMsg |-> k.hasMsg, msg |-> k.msg]
            own == frame(other)
        IN  IF shouldRetry(own.retries, error)
            THEN other' = [other EXCEPT !.pc = "waiting",
                                        !.thrown = Append(@, error),
                                        !.waits = Append(@, waitTime(error, own.delay))]
            ELSE other' = [other EXCEPT !.pc = "rejected",
                                        !.thrown = Append(@, error),
                                        !.outcome = [kind |-> "error", val |-> NoValue,
                                                     err |-> rethrow(error)]]
    /\ UNCHANGED <<rvars, pvars, cvars>>

OtherTimerFire ==
    /\ other.pc = "waiting"
    /\ LET own == frame(other) IN
        other' = [other EXCEPT !.pc = "attempting",
                               !.retries = nextRetries(own.retries),
                               !.delay = nextDelay(own.delay),
                               !.calls = @ + 1]
    /\ UNCHANGED <<rvars, pvars, cvars>>


(***************************************************************************)
(* The call sites (geminiService.ts lines 155-390).  Messages are          *)
(* sequences of strings, so that a fixed message is one element and an     *)
(* endpoint message is its characters.                                     *)
(***************************************************************************)

HardSites == {"analyzeImage", "getAdvancedQuiz", "expandMindMapNode"}
SoftSites == {"defineWord", "generateHint", "getVivaResponse", "getDebateResponse"}
Sites == HardSites \cup SoftSites

\* The call sites that take a useMockMode argument (lines 159 and 309).
MockSites == {"analyzeImage", "expandMindMapNode"}

\* A text with no fence and no prose around the body.
PlainText(b) ==
    [present |-> TRUE, chars |-> b,
     layout |-> "outer", fence |-> "none", lead |-> <<>>, body |-> b, trail |-> <<>>]

KeyDefinition == <<"d", "e", "f", "i", "n", "i", "t", "i", "o", "n">>
KeyHint == <<"h", "i", "n", "t">>
KeyResponse == <<"r", "e", "s", "p", "o", "n", "s", "e">>
KeyRebuttal == <<"r", "e", "b", "u", "t", "t", "a", "l">>

\* {"<key>":"<c>"}
OneField(key, c) == <<"{", "\"">> \o key \o <<"\"", ":", "\"">> \o c \o <<"\"", "}">>

\* What response.text can be when the endpoint has answered.
ResponseTexts ==
    {MissingText, EmptyText}
    \cup { PlainText(b) :
            b \in {BodyObj, BodyArr, BodyEmptyArr, BodyNull, BodyUnclosed,
                   OneField(KeyDefinition, <<"d">>), OneField(KeyHint, <<"h">>),
                   OneField(KeyResponse, <<"r">>), OneField(KeyRebuttal, <<"b">>),
                   OneField(KeyResponse, <<>>)} }

NoSite == "none"
NoResult == [kind |-> "pending", val |-> <<>>, msg |-> <<>>]

\* The nodeId arguments of expandMindMapNode: a root node and a child of it.
NoNode == <<>>
NodeIds == {<<"root">>, <<"root", "-2">>}

CIdle ==
    /\ site = NoSite
    /\ nodeId = NoNode
    /\ mock = FALSE
    /\ cpc = "idle"
    /\ response = MissingText
    /\ cresult = NoResult

Resolved(v) == [kind |-> "resolved", val |-> v, msg |-> <<>>]
Rejected(m) == [kind |-> "rejected", val |-> <<>>, msg |-> m]

Undefined == <<"undefined">>

\* parsed.key for a parsed JSON value other than null.
Prop(v, key) ==
    IF v[1] = "obj" /\ key \in DOMAIN v[2] THEN v[2][key] ELSE Undefined

\* JavaScript truthiness of a JSON value or undefined.
Truthy(v) ==
    CASE v[1] = "str" -> v[2] # <<>>
      [] v[1] = "num" -> v[2] # 0
      [] v[1] = "lit" -> v[2] = "true"
      [] v[1] \in {"obj", "arr"} -> TRUE
      [] OTHER -> FALSE

\* a || b
Or(a, b) == IF Truthy(a) THEN a ELSE b

\* The string `response.text || d` handed to cleanAndParseJSON.
orDefault(rt, d) == IF isEmptyText(rt) THEN PlainText(d) ELSE rt

\* lines 258, 274, 296, 330, 352, 385: the text substituted for an empty one.
defaultText(s) == IF s \in HardSites THEN <<"[", "]">> ELSE <<"{", "}">>

\* lines 275, 297, 353, 386: the string returned when the field is falsy.
fieldFallback(s) ==
    CASE s = "defineWord" -> <<"Definition unavailable.">>
      [] s = "generateHint" -> <<"Try reviewing the Story Mode for clues!">>
      [] s = "getVivaResponse" -> <<"Sorry, I couldn't get a response.">>
      [] s = "getDebateResponse" -> <<"Interesting point, but is that always true?">>

\* lines 277, 299, 355, 388: the string returned by the catch block.
catchFallback(s) ==
    CASE s = "defineWord" -> <<"Definition unavailable.">>
      [] s = "generateHint" -> <<"Try reviewing the Story Mode for clues!">>
      [] s = "getVivaResponse" -> <<"Oops! An error occurred. Check your network or quota.">>
      [] s = "getDebateResponse" -> <<"I see your point, but let's look closer at the core logic.">>

\* e.message || d
messageOr(e, d) == IF e.hasMsg /\ e.msg # <<>> THEN e.msg ELSE d

\* Variants of the catch blocks: soft call sites that rethrow, and hard call
\* sites that resolve with an empty array.
siteCatch_SoftRethrows(s, e) ==
    Rejected(messageOr(e, <<"Failed">>))
siteCatch_HardSubstitutes(s, e) ==
    IF s \in HardSites THEN Resolved(<<"arr", <<>>>>)
    ELSE Resolved(<<"str", catchFallback(s)>>)

\* The catch block of call site s, given the error e it caught
\* (lines 224-229, 259-262, 276-278, 298-300, 331-334, 354-356, 387-389).
siteCatch(s, e) ==
    CASE s = "analyzeImage" ->
            IF e.hasMsg /\ includes(e.msg, Ind429)
            THEN Rejected(<<"API Quota exceeded. Please wait a moment.">>)
            ELSE Rejected(messageOr(e, <<"Failed to generate content">>))
      [] s = "getAdvancedQuiz" ->
            Rejected(<<"Could not fetch advanced questions. ">>
                        \o messageOr(e, <<"Please try again later.">>))
      [] s = "expandMindMapNode" ->
            Rejected(messageOr(e, <<"Failed to expand node.">>))
      [] OTHER -> Resolved(<<"str", catchFallback(s)>>)

\* The Error a failed cleanAndParseJSON call throws (lines 10 and 50); the
\* text of JSON.parse's own message depends on the engine.
parseError(r) ==
    [hasMsg |-> TRUE,
     msg |-> IF r.msg = MalformedJSON
             THEN <<"AI generated malformed JSON: ", "<JSON.parse message>">>
             ELSE <<r.msg>>]

\* line 221
NoContent == [hasMsg |-> TRUE, msg |-> <<"No content generated.">>]

\* Reading a property of null throws a TypeError (lines 275, 297, 353, 386).
NullRead == [hasMsg |-> TRUE, msg |-> <<"Cannot read properties of null">>]

\* reader.onerror = reject (line 90): the rejection is the event, which has
\* no message.
FileReadFailed == [hasMsg |-> FALSE, msg |-> <<>>]

\* What call site s makes of the parsed value v, rt being response.text
\* (lines 222, 258, 275, 297, 330, 353, 386).
siteValue(s, v, rt) ==
    IF s \in HardSites THEN Resolved(v)
    ELSE IF v = <<"lit", "null">> THEN siteCatch(s, NullRead)
    ELSE CASE s = "defineWord" ->
                Resolved(Or(Prop(v, KeyDefinition), <<"str", fieldFallback(s)>>))
           [] s = "generateHint" ->
                Resolved(Or(Prop(v, KeyHint), <<"str", fieldFallback(s)>>))
           [] s = "getVivaResponse" ->
                Resolved(Or(Prop(v, KeyResponse), <<"str", fieldFallback(s)>>))
           [] s = "getDebateResponse" ->
                Resolved(Or(Prop(v, KeyResponse),
                         Or(Prop(v, KeyRebuttal),
                         Or(IF isEmptyText(rt) THEN Undefined ELSE <<"str", rt.chars>>,
                            <<"str", fieldFallback(s)>>))))

\* A node of the mock expansion (lines 311-313): its id and its parentId;
\* label and description play no part in the model.
mockNode(n, suffix) == [id |-> n \o <<suffix>>, parentId |-> n]

\* Variant of the mock expansion that yields two nodes.
mockValue_TwoNodes(s, n) ==
    IF s = "analyzeImage" THEN <<"MOCK_DATA">>
    ELSE <<"arr", <<mockNode(n, "-1"), mockNode(n, "-2")>>>>

\* The value mock mode resolves with (lines 160 and 310-314).
mockValue(s, n) ==
    IF s = "analyzeImage" THEN <<"MOCK_DATA">>
    ELSE <<"arr", <<mockNode(n, "-1"), mockNode(n, "-2"), mockNode(n, "-3")>>>>

\* The synchronous start of an exported function: mock mode schedules its
\* timer (lines 159-161, 309-315); otherwise the body runs up to its first
\* await, which for analyzeImage is the file read of line 166.
SiteEnter ==
    /\ cpc = "idle"
    /\ \E s \in Sites :
       \E m \in (IF s \in MockSites THEN BOOLEAN ELSE {FALSE}) :
        /\ site' = s
        /\ mock' = m
        /\ nodeId' \in (IF s = "expandMindMapNode" THEN NodeIds ELSE {NoNode})
        /\ cpc' = IF m THEN "mockWait"
                  ELSE IF s = "analyzeImage" THEN "reading" ELSE "calling"
    /\ UNCHANGED <<response, cresult, rvars, pvars, other>>

\* The mock timer fires and the promise resolves.
MockTimer ==
    /\ cpc = "mockWait"
    /\ cpc' = "done"
    /\ cresult' = Resolved(mockValue(site, nodeId))
    /\ UNCHANGED <<site, mock, nodeId, response, rvars, pvars, other>>

\* fileToGenerativePart settles (lines 78-94, 166): on success the body runs
\* on to the withRetry call, on failure to the catch block.
FileRead ==
    /\ cpc = "reading"
    /\ \/ /\ cpc' = "calling"
          /\ UNCHANGED cresult
       \/ /\ cpc' = "done"
          /\ cresult' = siteCatch(site, FileReadFailed)
    /\ UNCHANGED <<site, mock, nodeId, response, rvars, pvars, other>>

\* The call of withRetry by the call site.
SiteInvoke == cpc = "calling" /\ pc = "idle" /\ Invoke

\* Variant in which the parse sits inside the function handed to withRetry:
\* a parse failure is a failure of fn and is retried after a wait.
SiteReturn_ParseInsideRetry ==
    /\ cpc = "calling"
    /\ pc = "resolved"
    /\ \E rt \in ResponseTexts :
        LET arg == orDefault(rt, defaultText(site))
            r == cleanAndParseJSON(arg)
        IN  /\ response' = rt
            /\ text' = arg
            /\ presult' = r
            /\ IF r.kind = "error" /\ retries > 0
               THEN /\ waits' = Append(waits, delay)
                    /\ retries' = nextRetries(retries)
                    /\ delay' = nextDelay(delay)
                    /\ calls' = calls + 1
                    /\ pc' = "attempting"
                    /\ UNCHANGED <<cpc, cresult>>
               ELSE /\ cresult' = IF r.kind = "error"
                                  THEN siteCatch(site, parseError(r))
                                  ELSE siteValue(site, r.val, rt)
                    /\ cpc' = "done"
                    /\ UNCHANGED <<waits, retries, delay, calls, pc>>
    /\ UNCHANGED <<site, mock, nodeId, thrown, outcome, round, other>>

\* withRetry has resolved: the call site reads response.text, parses it and
\* returns, or lands in its catch block.
SiteReturn ==
    /\ cpc = "calling"
    /\ pc = "resolved"
    /\ \E rt \in ResponseTexts :
        /\ response' = rt
        /\ IF site = "analyzeImage" /\ isEmptyText(rt)
           THEN /\ cresult' = siteCatch(site, NoContent)
                /\ UNCHANGED pvars
           ELSE LET arg == IF site = "analyzeImage" THEN rt
                           ELSE orDefault(rt, defaultText(site))
                    r == cleanAndParseJSON(arg)
                IN  /\ text' = arg
                    /\ presult' = r
                    /\ cresult' = IF r.kind = "error"
                                  THEN siteCatch(site, parseError(r))
                                  ELSE siteValue(site, r.val, rt)
    /\ cpc' = "done"
    /\ UNCHANGED <<site, mock, nodeId, rvars, other>>

\* withRetry has rejected: the catch block of the call site runs.
SiteCatch ==
    /\ cpc = "calling"
    /\ pc = "rejected"
    /\ cresult' = siteCatch(site, outcome.err)
    /\ cpc' = "done"
    /\ UNCHANGED <<site, mock, nodeId, response, rvars, pvars, other>>

\* One call of an exported function, from its start to its settlement.
CallInit == RInit /\ PIdle /\ CIdle /\ OIdle

CallNext ==
    \/ SiteEnter
    \/ MockTimer
    \/ FileRead
    \/ SiteInvoke
    \/ FnResolve
    \/ FnReject
    \/ TimerFire
    \/ SiteReturn
    \/ SiteCatch

CallSpec == CallInit /\ [][CallNext]_vars

\* The timer set by mock mode fires (lines 160 and 315).
FairCallSpec == CallSpec /\ WF_vars(MockTimer)

\* cleanAndParseJSON alone, applied to each text of Inputs.
ParseInit == RInit /\ PInit /\ CIdle /\ OIdle

ParseNext == Ingest

ParseSpec == ParseInit /\ [][ParseNext]_vars


\* The retry wrapper alone: cleanAndParseJSON is not called.
Init == RInit /\ PIdle /\ CIdle /\ OIdle

Next == Invoke \/ FnResolve \/ FnReject \/ TimerFire

Spec == Init /\ [][Next]_vars

\* An operation invocation in flight settles (its promise resolves or
\* rejects) and a timer set by line 71 fires; nothing obliges a caller to
\* invoke withRetry again.
FnSettle == FnResolve \/ FnReject

FairSpec == Spec /\ WF_vars(FnSettle) /\ WF_vars(TimerFire)

\* Two invocations of withRetry under every interleaving of their steps.
ConcInit == RInit /\ PIdle /\ CIdle /\ OIdle

ConcNext ==
    \/ Invoke
    \/ FnResolve
    \/ FnReject
    \/ TimerFire
    \/ OtherInvoke
    \/ OtherFnResolve
    \/ OtherFnReject
    \/ OtherTimerFire

ConcSpec == ConcInit /\ [][ConcNext]_vars

(***************************************************************************)
(* Properties of withRetry.  Their vocabulary is the classification of a   *)
(* failure by its lower-cased message: RateLimited, ServerInternal or      *)
(* NonRetryable.                                                           *)
(***************************************************************************)

Last(s) == s[Len(s)]

RateLimited(e) ==
    includes(errorMsg(e), Ind429) \/ includes(errorMsg(e), IndExhausted)

ServerInternal(e) ==
    /\ ~RateLimited(e)
    /\ includes(errorMsg(e), Ind500) \/ includes(errorMsg(e), IndInternal)

NonRetryable(e) == ~RateLimited(e) /\ ~ServerInternal(e)

AllThrown(P(_)) == \A i \in 1..Len(thrown) : P(thrown[i])

RetryableClass(e) == RateLimited(e) \/ ServerInternal(e)

RECURSIVE SumSeq(_)
SumSeq(s) == IF s = <<>> THEN 0 ELSE s[1] + SumSeq(Tail(s))

MsgsOf(errs) == [i \in 1..Len(errs) |-> errs[i].msg]

\* C1: an operation that fails on every invocation with a retryable error is
\* invoked exactly 4 times under the default policy: never a 5th time, the
\* caller observes the failure only after the 4th invocation, and does
\* observe it once the 4th invocation has failed.
C1_ExactlyFourAttempts ==
    AllThrown(RetryableClass) =>
        /\ calls <= 4
        /\ (outcome.kind = "error" \/ pc = "rejected") => (calls = 4 /\ Len(thrown) = 4)
        /\ Len(thrown) = 4 => (pc = "rejected" /\ outcome.kind = "error")

C1_Witness ==
    /\ pc = "rejected"
    /\ calls = 4
    /\ Len(thrown) = 4
    /\ AllThrown(RetryableClass)

\* C2: when the operation fails with a NonRetryable error, withRetry rejects
\* with that same error at once: no further invocation of the operation and
\* no wait for that failure, whatever the number of retries remaining.
C2_NonRetryableRethrown ==
    (Len(thrown) > 0 /\ NonRetryable(Last(thrown))) =>
        /\ pc = "rejected"
        /\ outcome = [kind |-> "error", val |-> NoValue, err |-> Last(thrown)]
        /\ calls = Len(thrown)
        /\ Len(waits) = Len(thrown) - 1

C2_Witness ==
    /\ pc = "rejected"
    /\ retries = 2
    /\ Len(thrown) = 2
    /\ NonRetryable(Last(thrown))
    /\ Last(thrown).hasMsg

\* C3: on exhaustion (a retryable failure with zero retries remaining)
\* withRetry rejects with the error of the last invocation itself, not the
\* first error and not a wrapper, and schedules no wait for it.
C3_ExhaustionRethrowsLast ==
    (pc = "rejected" /\ retries = 0 /\ RetryableClass(Last(thrown))) =>
        /\ outcome.kind = "error"
        /\ outcome.err = Last(thrown)
        /\ outcome.err.id = calls
        /\ outcome.err # thrown[1]
        /\ Len(waits) = Len(thrown) - 1

C3_Witness ==
    /\ pc = "rejected"
    /\ retries = 0
    /\ RetryableClass(Last(thrown))
    /\ thrown[1].msg # Last(thrown).msg

\* C4: after k retryable failures (0 <= k <= 3) followed by a success,
\* withRetry resolves with the success value after exactly k + 1 invocations
\* and k waits; two "Error 429: quota" failures then a success wait
\* 2000 + 4000 ms in total.
C4_SuccessAfterKFailures ==
    pc = "resolved" =>
        /\ Len(thrown) <= 3
        /\ AllThrown(RetryableClass)
        /\ calls = Len(thrown) + 1
        /\ Len(waits) = Len(thrown)
        /\ outcome.kind = "value" /\ outcome.val \in Values
        /\ MsgsOf(thrown) = <<Msg429Quota, Msg429Quota>> => SumSeq(waits) = 2000 + 4000

C4_Witness ==
    /\ pc = "resolved"
    /\ MsgsOf(thrown) = <<Msg429Quota, Msg429Quota>>
    /\ waits = <<2000, 4000>>
    /\ calls = 3

\* C5: when every failure is classified RateLimited, the waits under the
\* default policy are 2000, 4000, 8000: wait number i is 2000 * 2^(i-1).
C5_RateLimitedWaits ==
    AllThrown(RateLimited) =>
        \A i \in 1..Len(waits) : waits[i] = 2000 * 2^(i - 1)

\* C6: a failure classified RateLimited waits the full current delay before
\* the retry, whether '429' or 'resource_exhausted' matched.
C6_RateLimitedFullDelay ==
    (pc = "waiting" /\ RateLimited(Last(thrown))) => Last(waits) = delay

\* C7: a failure classified ServerInternal waits half of the current delay;
\* a permanently ServerInternal operation waits 1000, 2000, 4000 ms.
C7_ServerInternalHalfDelay ==
    /\ (pc = "waiting" /\ ServerInternal(Last(thrown))) => Last(waits) * 2 = delay
    /\ AllThrown(ServerInternal) =>
          /\ \A i \in 1..Len(waits) : waits[i] = 1000 * 2^(i - 1)
          /\ pc = "rejected" => waits = <<1000, 2000, 4000>>

C7_Witness ==
    /\ pc = "rejected"
    /\ Len(thrown) = 4
    /\ AllThrown(ServerInternal)
    /\ waits = <<1000, 2000, 4000>>

(***************************************************************************)
(* Properties of cleanAndParseJSON.                                        *)
(***************************************************************************)

Returned == presult.kind # "pending"

BracketFree(s) == \A i \in 1..Len(s) : s[i] \notin {"{", "}", "[", "]"}

IsObjectOrArray(r) == r.ok /\ r.v[1] \in {"obj", "arr"}

\* C8: for any valid JSON value V, V's text wrapped in leading/trailing prose
\* and a markdown fence (tagged json or not) is ingested to a value equal to V.
C8_FencedProseRoundTrip ==
    (Returned /\ text.fence # "none" /\ JSONParse(text.body).ok) =>
        /\ presult.kind = "value"
        /\ presult.val = JSONParse(text.body).v

\* C9: a JSON object or array V surrounded by unfenced prose that contains
\* none of { } [ ] is ingested to V: the prose is discarded and never causes
\* a failure.
C9_UnfencedProseDiscarded ==
    (/\ Returned
     /\ text.fence = "none"
     /\ IsObjectOrArray(JSONParse(text.body))
     /\ BracketFree(text.lead)
     /\ BracketFree(text.trail)) =>
        /\ presult.kind = "value"
        /\ presult.val = JSONParse(text.body).v

\* C10: for an empty or missing raw text cleanAndParseJSON throws the error
\* 'Empty response text' before any normalization or parse, and returns no
\* value.
C10_EmptyResponseThrown ==
    (Returned /\ (~text.present \/ Len(text.chars) = 0)) =>
        /\ presult.kind = "error"
        /\ presult.msg = "Empty response text"
        /\ presult.steps = <<>>

C10_Witness ==
    /\ Returned
    /\ text.present
    /\ Len(text.chars) = 0
    /\ presult.kind = "error"

\* The cleaned text of lines 12-37 and the two parses of lines 40 and 46 for
\* the text of the current call.
CleanedText == stripIndexKeys(normalize(text.chars), 1)
FirstParse == JSONParse(CleanedText)
SecondParse == JSONParse(fixTrailingCommas(CleanedText))

\* C11: cleanAndParseJSON is fail-loud: it either returns the value of a
\* successful parse (of the cleaned text, else of the repaired text) or
\* throws; when both parses fail it throws the malformed-JSON error and
\* returns no partial, null or default value.
C11_FailLoud ==
    (Returned /\ text.present /\ Len(text.chars) > 0) =>
        /\ presult.kind \in {"value", "error"}
        /\ presult.kind = "value" =>
              \/ FirstParse.ok /\ presult.val = FirstParse.v
              \/ ~FirstParse.ok /\ SecondParse.ok /\ presult.val = SecondParse.v
        /\ (~FirstParse.ok /\ ~SecondParse.ok) =>
              /\ presult.kind = "error"
              /\ presult.msg = "AI generated malformed JSON"
              /\ presult.val = <<>>

C11_Witness ==
    /\ Returned
    /\ text.body = BodyUnclosed
    /\ ~FirstParse.ok /\ ~SecondParse.ok
    /\ presult.kind = "error"

InsideString(s, j) ==
    Cardinality({k \in 1..(j - 1) : s[k] = "\"" /\ (k = 1 \/ s[k - 1] # "\\")}) % 2 = 1

\* A trailing comma: a comma outside every string, followed (after optional
\* whitespace) by a closing brace or bracket.
TrailingCommaAt(s, j) ==
    /\ s[j] = ","
    /\ ~InsideString(s, j)
    /\ LET k == SkipWs(s, j + 1) IN k <= Len(s) /\ s[k] \in {"}", "]"}

\* The same text with its trailing commas removed.
WithoutTrailingCommas(s) ==
    LET keep == {j \in 1..Len(s) : ~TrailingCommaAt(s, j)}
    IN  [i \in 1..Cardinality(keep) |->
            s[CHOOSE j \in keep : Cardinality({k \in keep : k <= j}) = i]]

\* The text is valid JSON except for its trailing commas.
ValidButForTrailingCommas(s) ==
    /\ \E j \in 1..Len(s) : TrailingCommaAt(s, j)
    /\ ~JSONParse(s).ok
    /\ JSONParse(WithoutTrailingCommas(s)).ok

\* C16: a text that is valid JSON except for trailing commas before a closing
\* brace or bracket is ingested to the value of the same text with those
\* commas removed.
C16_TrailingCommasRepaired ==
    (Returned /\ text.present /\ ValidButForTrailingCommas(text.chars)) =>
        /\ presult.kind = "value"
        /\ presult.val = JSONParse(WithoutTrailingCommas(text.chars)).v

\* The array the index-key repair is said to produce for BodyQuiz.
QuizUnwrapped == <<"{", "\"", "q", "u", "i", "z", "\"", ":", "[", "{", "\"", "q", "\"", ":", "\"", "x", "\"", "}", ",", "{", "\"", "q", "\"", ":", "\"", "y", "\"", "}", "]", "}">>

\* C17: the index-key repair unwraps array elements nested under
\* quoted-integer keys: {"quiz":[{"1":{"q":"x"}},{"2":{"q":"y"}}]} is ingested
\* with quiz equal to [{"q":"x"},{"q":"y"}].
C17_IndexKeyUnwrapped ==
    (Returned /\ text.chars = BodyQuiz) =>
        /\ presult.kind = "value"
        /\ presult.val = JSONParse(QuizUnwrapped).v

NoFenceMarker(s) == ~includes(s, Fence)

Settled == cpc = "done"

\* The call of the call site failed inside its try block: withRetry rejected
\* or cleanAndParseJSON threw.
TryFailed == pc = "rejected" \/ presult.kind = "error"

\* C13: a soft call site never rejects once it has issued the endpoint call;
\* whenever withRetry rejects or cleanAndParseJSON throws it resolves with
\* its own fixed fallback string.
C13_SoftSitesNeverReject ==
    (site \in SoftSites) =>
        /\ cresult.kind # "rejected"
        /\ Settled => cresult.kind = "resolved"
        /\ (Settled /\ TryFailed) => cresult.val = <<"str", catchFallback(site)>>

C13_Witness ==
    /\ Settled
    /\ site = "getVivaResponse"
    /\ pc = "rejected"
    /\ calls = 4
    /\ cresult = Resolved(<<"str", <<"Oops! An error occurred. Check your network or quota.">>>>)

\* C14: outside mock mode a hard call site propagates every failure:
\* whenever withRetry rejects or cleanAndParseJSON throws it rejects and
\* never resolves with a substitute value.
C14_HardSitesPropagate ==
    (Settled /\ site \in HardSites /\ ~mock /\ TryFailed) =>
        cresult.kind = "rejected"

C14_Witness ==
    /\ Settled
    /\ site = "expandMindMapNode"
    /\ ~mock
    /\ pc = "resolved"
    /\ presult.kind = "error"
    /\ cresult.kind = "rejected"

\* C15: when the endpoint resolves with an empty or missing response text,
\* every hard call site rejects; none returns a default such as an empty
\* array.
C15_EmptyResponseRejected ==
    (Settled /\ site \in HardSites /\ ~mock /\ pc = "resolved" /\ isEmptyText(response)) =>
        cresult.kind = "rejected"

(***************************************************************************)
(* Properties of two interleaved invocations (ConcSpec).                   *)
(***************************************************************************)

\* What an invocation's state must be, given only the failures its own
\* operation has thrown and its own position: the number of operation
\* invocations, the waits, the budget left and the current delay.
OwnCalls(p, th) == Len(th) + (IF p \in {"attempting", "resolved"} THEN 1 ELSE 0)

OwnWaits(p, th) ==
    [k \in 1..(Len(th) - (IF p = "rejected" THEN 1 ELSE 0)) |->
        IF includes(toLowerCase(th[k].msg), Ind429)
        THEN 2000 * 2^(k - 1)
        ELSE (2000 * 2^(k - 1)) \div 2]

OwnState(p, r, d, c, w, th) ==
    p # "idle" =>
        /\ c = OwnCalls(p, th)
        /\ w = OwnWaits(p, th)
        /\ r = 3 - (c - 1)
        /\ d = 2000 * 2^(c - 1)

\* C19: two invocations share no retry state: under every interleaving the
\* attempts and the waits of each depend only on the outcomes of its own
\* operation, and each starts with the full budget and the initial delay.
C19_NoSharedRetryState ==
    /\ OwnState(pc, retries, delay, calls, waits, thrown)
    /\ OwnState(other.pc, other.retries, other.delay, other.calls, other.waits, other.thrown)
    /\ (pc = "attempting" /\ calls = 1) => (retries = 3 /\ delay = 2000)
    /\ (other.pc = "attempting" /\ other.calls = 1) => (other.retries = 3 /\ other.delay = 2000)

\* The first invocation has used up its budget in an earlier round and is
\* in its second round, while the second invocation is on its first
\* attempt's retry with its own budget.
C19_Witness ==
    /\ round = 2
    /\ pc = "waiting" /\ Len(waits) = 3
    /\ other.pc = "waiting" /\ Len(other.waits) = 1
    /\ other.retries = 3 /\ other.delay = 2000
    /\ retries = 1

(***************************************************************************)
(* Termination (FairSpec).                                                 *)
(***************************************************************************)

Running == pc \in {"attempting", "waiting"}
Terminal == pc \in {"resolved", "rejected"}

\* C20: provided every operation invocation settles and every wait elapses,
\* a withRetry invocation reaches success or failure, and it does so within
\* retries + 1 operation invocations.
C20_Terminates ==
    /\ Running ~> Terminal
    /\ [](calls <= DefaultRetries + 1)

C20_Witness ==
    /\ pc = "rejected"
    /\ calls = DefaultRetries + 1
    /\ Len(waits) = DefaultRetries

(***************************************************************************)
(* Further properties of withRetry (Spec).                                 *)
(***************************************************************************)

\* The test of line 69 on a thrown error.
Has429(e) == includes(errorMsg(e), Ind429)

\* C21 (as claimed): within one invocation each wait is strictly longer
\* than the wait before it, for every sequence of retryable failures.
C21_WaitsStrictlyIncreasing ==
    \A i \in 2..Len(waits) : waits[i] > waits[i - 1]

\* C21 (amended): within one invocation no wait is shorter than the wait
\* before it, and two consecutive waits are equal exactly when a failure
\* whose message holds '429' is followed by one whose message does not.
C21_WaitsNonDecreasing ==
    \A i \in 2..Len(waits) :
        /\ waits[i] >= waits[i - 1]
        /\ waits[i] = waits[i - 1] <=> (Has429(thrown[i - 1]) /\ ~Has429(thrown[i]))

C21_Witness ==
    /\ pc = "rejected"
    /\ waits = <<2000, 2000, 8000>>
    /\ Has429(thrown[1]) /\ ServerInternal(thrown[2]) /\ Has429(thrown[3])

\* Operation invocations started and not yet settled, and timers set and
\* not yet fired, counted from the history of the invocation.
InFlight == calls - Len(thrown) - (IF outcome.kind = "value" THEN 1 ELSE 0)
PendingWaits == IF calls = 0 THEN 0 ELSE Len(waits) - (calls - 1)

\* C22: attempts and waits of one invocation are strictly sequential: at
\* most one operation invocation is in flight, none is in flight while a
\* wait is pending, and a further operation invocation starts only by the
\* elapsing of the pending wait.
C22_StrictlySequential ==
    /\ [](/\ InFlight \in {0, 1}
          /\ PendingWaits \in {0, 1}
          /\ InFlight + PendingWaits <= 1
          /\ InFlight = 1 <=> pc = "attempting"
          /\ PendingWaits = 1 <=> pc = "waiting")
    /\ [][(calls' = calls + 1 /\ round' = round) =>
            (pc = "waiting" /\ pc' = "attempting" /\ PendingWaits = 1 /\ PendingWaits' = 0)]_vars

C22_Witness ==
    /\ pc = "attempting"
    /\ calls = 3
    /\ Len(waits) = 2
    /\ InFlight = 1
    /\ PendingWaits = 0

(***************************************************************************)
(* Further properties of cleanAndParseJSON (ParseSpec).                    *)
(***************************************************************************)

\* C23: the index-key repair and the trailing-comma repair run only after a
\* first parse of the normalized text has failed: when the normalized text
\* is valid JSON the value returned is the direct parse of that text.
C23_RepairsOnlyAfterFailure ==
    (Returned /\ text.present /\ Len(text.chars) > 0
              /\ JSONParse(normalize(text.chars)).ok) =>
        /\ presult.kind = "value"
        /\ presult.val = JSONParse(normalize(text.chars)).v

\* The fence-stripped, trimmed text of line 12, and the positions of the
\* openers and closers of a text.
Stripped == trim(replaceFences(text.chars, 1))
Openers(t) == {i \in 1..Len(t) : t[i] \in {"{", "["}}
Closers(t) == {i \in 1..Len(t) : t[i] \in {"}", "]"}}
Smallest(S) == CHOOSE i \in S : \A j \in S : i <= j
Largest(S) == CHOOSE i \in S : \A j \in S : i >= j

\* The slice from the first opener to the last closer of t, when both
\* exist and the closer comes after the opener; t otherwise.
EnvelopeOf(t) ==
    LET op == Openers(t)
        cl == Closers(t)
    IN  IF op # {} /\ cl # {}
        THEN LET b == Smallest(op)
                 e == Largest(cl)
             IN  IF e > b THEN SubSeq(t, b, e) ELSE t
        ELSE t

\* C24: with s the smallest index of an opener and e the largest index of a
\* closer in the stripped text t, the normalized text is t[s..e] when both
\* exist and e > s, whatever the two characters are, and t unchanged in
\* every other case.
C24_EnvelopeExtraction ==
    (Returned /\ text.present) => normalize(text.chars) = EnvelopeOf(Stripped)

\* An opener and a closer of different kinds delimit the slice.
C24_Witness ==
    /\ Returned
    /\ LET t == Stripped
           n == normalize(text.chars)
       IN  /\ n # t
           /\ n = EnvelopeOf(t)
           /\ n[1] = "[" /\ n[Len(n)] = "}"

(***************************************************************************)
(* Classification and retry-state properties of withRetry (Spec).          *)
(***************************************************************************)

\* The lower-cased message of e holds one of the four indicators.
LowerHasIndicator(e) ==
    /\ e.hasMsg
    /\ \E ind \in {Ind429, IndExhausted, Ind500, IndInternal} :
          includes(toLowerCase(e.msg), ind)

\* The k-th failure of the invocation was retried: a wait followed it.
Retried(k) == k <= Len(waits)

\* C25: a failure is retried if and only if its lower-cased message holds
\* '429', 'resource_exhausted', '500' or 'internal error' and retries remain;
\* a failure with no message or with none of these is never retried.
C25_ClassificationTotal ==
    \A k \in 1..Len(thrown) :
        /\ Retried(k) <=> (LowerHasIndicator(thrown[k]) /\ DefaultRetries - (k - 1) > 0)
        /\ (~thrown[k].hasMsg \/ ~LowerHasIndicator(thrown[k])) =>
              (~Retried(k) /\ pc = "rejected" /\ k = Len(thrown))

\* An upper-case RESOURCE_EXHAUSTED and a mixed-case Internal Error were
\* retried, and an error without a message ended the invocation.
C25_Witness ==
    /\ pc = "rejected"
    /\ Len(thrown) = 3
    /\ thrown[1].msg = MsgExhausted /\ Retried(1)
    /\ thrown[2].msg = MsgInternal /\ Retried(2)
    /\ ~thrown[3].hasMsg /\ ~Retried(3)

(***************************************************************************)
(* Further properties of the call sites (CallSpec).                        *)
(***************************************************************************)

\* C26: parsing happens after withRetry has resolved and outside it: a
\* parse (whatever its outcome) invokes the endpoint no further time and
\* schedules no wait, so an endpoint call that succeeds on its first
\* invocation is the only one.
C26_ParseOutsideRetry ==
    /\ []((Settled /\ pc = "resolved" /\ thrown = <<>>) =>
            (calls = 1 /\ waits = <<>>))
    /\ [][presult' # presult =>
            (pc = "resolved" /\ pc' = pc /\ calls' = calls /\ waits' = waits)]_vars

C26_Witness ==
    /\ Settled
    /\ site = "getAdvancedQuiz"
    /\ pc = "resolved" /\ thrown = <<>>
    /\ presult.kind = "error"
    /\ calls = 1 /\ waits = <<>>

\* C27: for an invocation started with R = 3 retries and delay D = 2000, at
\* every attempt the operation invocations made plus the retries remaining
\* equal R + 1, the delay equals D * 2^(R - retries remaining), retries
\* remaining is never negative, and the delay doubles on every retry
\* whatever the class of the failure.
C27_RetryStateInvariant ==
    /\ [](pc # "idle" =>
            /\ calls + retries = DefaultRetries + 1
            /\ delay = DefaultDelay * 2^(DefaultRetries - retries)
            /\ retries >= 0)
    /\ [][(calls' = calls + 1 /\ round' = round) =>
            (delay' = 2 * delay /\ retries' = retries - 1)]_vars

C27_Witness ==
    /\ pc = "attempting"
    /\ retries = 0
    /\ calls = 4
    /\ delay = 16000
    /\ Has429(thrown[1]) /\ ServerInternal(thrown[2]) /\ ServerInternal(thrown[3])

\* C28: once an invocation has reached a terminal outcome its operation is
\* not invoked again and no further wait is scheduled (the only step left
\* is a new invocation, which starts afresh), and every run ends with one
\* wait fewer than operation invocations.
C28_QuiescentAfterTerminal ==
    /\ [](Terminal => Len(waits) = calls - 1)
    /\ [][Terminal => (round' = round + 1 /\ pc' = "attempting"
                        /\ calls' = 1 /\ waits' = <<>> /\ thrown' = <<>>)]_vars

C28_Witness ==
    /\ round = 2
    /\ pc = "resolved"
    /\ calls = 3
    /\ Len(waits) = 2

QuotaMessage == <<"API Quota exceeded. Please wait a moment.">>

\* C29: analyzeImage rejects with the quota message if and only if the
\* failure it caught was a RateLimited endpoint failure; a failure of any
\* other origin is never reported as a quota error and every RateLimited
\* exhaustion is.
C29_QuotaIffRateLimited ==
    (Settled /\ site = "analyzeImage" /\ ~mock) =>
        (cresult = Rejected(QuotaMessage)
            <=> (pc = "rejected" /\ RateLimited(outcome.err)))

\* C30: in mock mode analyzeImage and expandMindMapNode never invoke the
\* endpoint or withRetry and always resolve: analyzeImage with the fixed
\* mock analysis, expandMindMapNode with exactly three nodes whose ids are
\* nodeId-1, nodeId-2, nodeId-3 and whose parentId is the given nodeId.
C30_MockMode ==
    /\ [](mock => /\ site \in {"analyzeImage", "expandMindMapNode"}
                  /\ pc = "idle" /\ calls = 0
                  /\ presult.kind = "pending"
                  /\ cresult.kind # "rejected")
    /\ []((mock /\ Settled /\ site = "analyzeImage") =>
            cresult = Resolved(<<"MOCK_DATA">>))
    /\ []((mock /\ Settled /\ site = "expandMindMapNode") =>
            /\ cresult.kind = "resolved"
            /\ cresult.val[1] = "arr"
            /\ Len(cresult.val[2]) = 3
            /\ \A i \in 1..3 :
                  /\ cresult.val[2][i].id = nodeId \o <<<<"-1", "-2", "-3">>[i]>>
                  /\ cresult.val[2][i].parentId = nodeId)
    /\ mock ~> (mock /\ Settled)

C30_Witness ==
    /\ mock
    /\ Settled
    /\ site = "expandMindMapNode"
    /\ nodeId = <<"root", "-2">>
    /\ cresult.val[2][3].id = <<"root", "-2", "-3">>
    /\ calls = 0

====
